---- MODULE Spec2Model ----
(***************************************************************************)
(* Model of src/core/utils.js: parseIpfsPath and resolveIpfsPaths.         *)
(*                                                                         *)
(* Strings are sequences of character codes, Buffers are sequences of      *)
(* bytes; both are wrapped in a record that carries the JavaScript type.   *)
(* The libraries the file calls (async/map, multihashes, is-ipfs, bs58)    *)
(* are modelled by what they do at the call sites of utils.js.             *)
(***************************************************************************)
EXTENDS Integers, Sequences, FiniteSets, TLC

VARIABLES
    arg,            \* the ipfsPaths argument as the caller passed it
    graph,          \* the object graph behind ipfs.object.get (read-only)
    pc,             \* "start" before the call, "called" after it returned or threw
    ipfsPaths,      \* the array map() iterates (after the coercion of line 59-61)
    results,        \* async/map's results array: index -> value (holes are absent)
    completed,      \* async/map's count of iteratee callbacks without error
    cbUsed,         \* indices whose onlyOnce-wrapped callback has fired
    cbLog,          \* per input: the invocations of cb, in order
    cbOrder,        \* the indices of the inputs in the order cb was invoked
    callbackCalls,  \* the invocations of the caller's callback, in order
    pending,        \* per input: the outstanding ipfs.object.get, or NoFetch
    fetchLog,       \* per input: the hashes passed to ipfs.object.get, in order
    replyLog,       \* per input: what ipfs.object.get called back with, in order
    parsed,         \* indices of the inputs handed to parseIpfsPath
    thrown,         \* the exception that escaped resolveIpfsPaths, or Null
    ipfsPath,       \* parser specification: the string given to parseIpfsPath
    parseOut        \* parser specification: what parseIpfsPath returned or threw

vars == <<arg, graph, pc, ipfsPaths, results, completed, cbUsed, cbLog,
          cbOrder, callbackCalls, pending, fetchLog, replyLog, parsed, thrown, ipfsPath,
          parseOut>>

resolverVars == <<arg, graph, pc, ipfsPaths, results, completed, cbUsed, cbLog,
                  cbOrder, callbackCalls, pending, fetchLog, replyLog, parsed,
                  thrown>>

parserVars == <<ipfsPath, parseOut>>

----------------------------------------------------------------------------
(* Bounds *)

\* most tokens concatenated into a string given to parseIpfsPath
MaxTokens == 6

\* most elements of the ipfsPaths array
MaxInputs == 2

----------------------------------------------------------------------------
(* JavaScript values *)

Null == [type |-> "null"]

Undefined == [type |-> "undefined"]

Str(chars) == [type |-> "string", chars |-> chars]

Buf(bytes) == [type |-> "buffer", bytes |-> bytes]

Err(msg) == [type |-> "error", message |-> msg]

\* character codes
SLASH == 47

IpfsPrefix == <<47, 105, 112, 102, 115, 47>>

RECURSIVE Concat(_)
Concat(ss) == IF ss = <<>> THEN <<>> ELSE Head(ss) \o Concat(Tail(ss))

----------------------------------------------------------------------------
(* bs58 / multihashes / is-ipfs, as used by lines 31, 66 and 80 *)

B58Index(c) ==
    IF c \in 49..57 THEN c - 49
    ELSE IF c \in 65..72 THEN c - 65 + 9
    ELSE IF c \in 74..78 THEN c - 74 + 17
    ELSE IF c \in 80..90 THEN c - 80 + 22
    ELSE IF c \in 97..107 THEN c - 97 + 33
    ELSE IF c \in 109..122 THEN c - 109 + 44
    ELSE -1

\* one step of the decoder: bytes (little-endian) * 58 + carry
RECURSIVE MulAdd(_, _)
MulAdd(bytes, carry) ==
    IF bytes = <<>>
    THEN IF carry > 0 THEN <<carry % 256>> \o MulAdd(<<>>, carry \div 256) ELSE <<>>
    ELSE LET c == carry + Head(bytes) * 58
         IN  <<c % 256>> \o MulAdd(Tail(bytes), c \div 256)

RECURSIVE B58Digits(_, _)
B58Digits(chars, bytes) ==
    IF chars = <<>> THEN bytes
    ELSE B58Digits(Tail(chars), MulAdd(bytes, B58Index(Head(chars))))

RECURSIVE LeadingOnes(_)
LeadingOnes(chars) ==
    IF Len(chars) > 1 /\ Head(chars) = 49 THEN 1 + LeadingOnes(Tail(chars)) ELSE 0

Reverse(s) == [i \in 1..Len(s) |-> s[Len(s) + 1 - i]]

IsB58(chars) == \A i \in 1..Len(chars) : B58Index(chars[i]) >= 0

\* bs58.decode: the bytes of a base58 text (defined when IsB58(chars))
B58Decode(chars) ==
    IF chars = <<>> THEN <<>>
    ELSE Reverse(B58Digits(chars, <<0>>) \o [i \in 1..LeadingOnes(chars) |-> 0])

IsValidCode(code) == code \in 1..15 \/ code \in 17..29 \/ code \in {34, 35, 86}

\* multihashes.validate(buf) does not throw
MhValid(bytes) ==
    /\ Len(bytes) >= 3
    /\ IsValidCode(bytes[1])
    /\ bytes[2] >= 1
    /\ Len(bytes) - 2 = bytes[2]

\* isIPFS.multihash(root)
isIPFS_multihash(chars) == IsB58(chars) /\ MhValid(B58Decode(chars))

\* variant of fromB58String: the text is wrapped without being decoded
fromB58StringRaw(chars) == Buf(chars)

\* multihashes.fromB58String(root)
fromB58String(chars) == Buf(B58Decode(chars))

----------------------------------------------------------------------------
(* parseIpfsPath, lines 22-39 *)

invalidPathErr == Err("invalid ipfs ref path")

\* [^/]+(?:\/[^/]+)*
IsSegments(g) ==
    /\ Len(g) > 0
    /\ g[1] # SLASH
    /\ g[Len(g)] # SLASH
    /\ \A i \in 1..(Len(g) - 1) : ~(g[i] = SLASH /\ g[i + 1] = SLASH)

HasPrefix(s) == Len(s) >= 6 /\ SubSeq(s, 1, 6) = IpfsPrefix

\* variant of Capture: the optional prefix is not stripped
CaptureNoPrefix(s, prefix, trail) ==
    SubSeq(s, 1, IF trail THEN Len(s) - 1 ELSE Len(s))

\* the text the group captures when the pattern is tried with or without
\* the optional prefix and the optional trailing slash
Capture(s, prefix, trail) ==
    LET from == IF prefix THEN 7 ELSE 1
        to   == IF trail THEN Len(s) - 1 ELSE Len(s)
    IN  SubSeq(s, from, to)

Matches(s, prefix, trail) ==
    /\ prefix => HasPrefix(s)
    /\ trail => (Len(s) >= (IF prefix THEN 7 ELSE 1) /\ s[Len(s)] = SLASH)
    /\ IsSegments(Capture(s, prefix, trail))

\* the alternatives in the order the regular expression engine tries them
Alternatives == << <<TRUE, FALSE>>, <<TRUE, TRUE>>, <<FALSE, FALSE>>, <<FALSE, TRUE>> >>

\* ipfsPath.match(/^(?:\/ipfs\/)?([^/]+(?:\/[^/]+)*)\/?$/): matched[1], or Null
Match(s) ==
    LET ok == {k \in 1..4 : Matches(s, Alternatives[k][1], Alternatives[k][2])}
    IN  IF ok = {} THEN Null
        ELSE LET k == CHOOSE k \in ok : \A j \in ok : k <= j
             IN  Str(Capture(s, Alternatives[k][1], Alternatives[k][2]))

\* String.prototype.split('/')
RECURSIVE Split(_, _)
Split(s, cur) ==
    IF s = <<>> THEN <<cur>>
    ELSE IF Head(s) = SLASH THEN <<cur>> \o Split(Tail(s), <<>>)
    ELSE Split(Tail(s), Append(cur, Head(s)))

\* what Buffer.prototype lacks: ipfsPath.match on a non-string
matchTypeErr == Err("ipfsPath.match is not a function")

\* variant of parseIpfsPath: the root is returned without isIPFS.multihash
parseIpfsPathAnyRoot(path) ==
    IF path.type # "string" THEN [throws |-> matchTypeErr]
    ELSE
    LET matched == Match(path.chars)
    IN  IF matched = Null THEN [throws |-> invalidPathErr]
        ELSE LET parts == Split(matched.chars, <<>>)
             IN  [root |-> Head(parts), links |-> Tail(parts)]

\* returns [root, links], or [throws] when the function throws
parseIpfsPath(path) ==
    IF path.type # "string" THEN [throws |-> matchTypeErr]
    ELSE
    LET matched == Match(path.chars)
    IN  IF matched = Null THEN [throws |-> invalidPathErr]
        ELSE LET parts == Split(matched.chars, <<>>)
                 root  == Head(parts)
                 links == Tail(parts)
             IN  IF isIPFS_multihash(root)
                 THEN [root |-> root, links |-> links]
                 ELSE [throws |-> invalidPathErr]

----------------------------------------------------------------------------
(* async/map as called at line 63: results by index, the caller's callback  *)
(* once, every iteratee callback only once                                  *)

NoFetch == [type |-> "none"]

alreadyCalledErr == Err("Callback was already called.")

\* callback(err, results) behind once()
Callback(s, err) ==
    IF s.callbackCalls # <<>> THEN s
    ELSE [s EXCEPT !.callbackCalls = Append(@, [err |-> err, results |-> s.results])]

\* eachOf's iteratorCallback
iteratorCallback(s, n, err) ==
    IF err # Null THEN Callback(s, err)
    ELSE LET c == s.completed + 1
             s1 == [s EXCEPT !.completed = c]
         IN  IF c = n THEN Callback(s1, Null) ELSE s1

\* variant of cb: the value is pushed, so results are in completion order
cbPush(s, n, i, err, v) ==
    LET at == Cardinality(DOMAIN s.results) + 1
        s1 == [s EXCEPT !.cbLog[i] = Append(@, [err |-> err, value |-> v]),
                        !.cbOrder = Append(@, i),
                        !.results = (at :> v) @@ s.results]
    IN  IF i \in s1.cbUsed
        THEN [s1 EXCEPT !.thrown = alreadyCalledErr]
        ELSE iteratorCallback([s1 EXCEPT !.cbUsed = @ \cup {i}], n, err)

\* the cb the iteratee receives for the input at index i:
\* results[index] = v, then the onlyOnce-wrapped iteratorCallback
cb(s, n, i, err, v) ==
    LET s1 == [s EXCEPT !.cbLog[i] = Append(@, [err |-> err, value |-> v]),
                        !.cbOrder = Append(@, i),
                        !.results = (i :> v) @@ s.results]
    IN  IF i \in s1.cbUsed
        THEN [s1 EXCEPT !.thrown = alreadyCalledErr]
        ELSE iteratorCallback([s1 EXCEPT !.cbUsed = @ \cup {i}], n, err)

----------------------------------------------------------------------------
(* resolveIpfsPaths, lines 58-108 *)

validateErr == Err("multihash invalid")

\* variant of noLinkErr: the link name is interpolated in both places
noLinkErrNameTwice(linkName, multihash) ==
    [type |-> "error", message |-> "no link named", name |-> linkName, under |-> Str(linkName)]

noLinkErr(linkName, multihash) ==
    [type |-> "error", message |-> "no link named", name |-> linkName, under |-> multihash]

\* ipfs.object.get(hash, follow.bind(null, links)) issued for input i
get(s, i, hash, links) ==
    [s EXCEPT !.fetchLog[i] = Append(@, hash),
              !.pending[i] = [type |-> "fetch", hash |-> hash, links |-> links]]

\* variant of follow: the first link is followed whatever its name
followAnyLink(s, n, i, links, err, obj) ==
    IF err # Null THEN cb(s, n, i, err, Undefined)
    ELSE IF links = <<>> THEN cb(s, n, i, Null, obj.multihash)
    ELSE IF obj.links = <<>>
         THEN cb(s, n, i, noLinkErr(Head(links), obj.multihash), Undefined)
         ELSE get(s, i, obj.links[1].multihash, Tail(links))

\* variant of follow: the target of the last link is reported without being fetched
followStopEarly(s, n, i, links, err, obj) ==
    IF err # Null THEN cb(s, n, i, err, Undefined)
    ELSE IF links = <<>> THEN cb(s, n, i, Null, obj.multihash)
    ELSE LET linkName == Head(links)
             found == {k \in 1..Len(obj.links) : obj.links[k].name = linkName}
         IN  IF found = {}
             THEN cb(s, n, i, noLinkErr(linkName, obj.multihash), Undefined)
             ELSE LET nextObj == obj.links[CHOOSE k \in found : \A j \in found : k <= j]
                  IN  IF Len(links) = 1
                      THEN cb(s, n, i, Null, nextObj.multihash)
                      ELSE get(s, i, nextObj.multihash, Tail(links))

\* variant of follow: of several links with the name, the last one is followed
followLastMatch(s, n, i, links, err, obj) ==
    IF err # Null THEN cb(s, n, i, err, Undefined)
    ELSE IF links = <<>> THEN cb(s, n, i, Null, obj.multihash)
    ELSE LET linkName == Head(links)
             found == {k \in 1..Len(obj.links) : obj.links[k].name = linkName}
         IN  IF found = {}
             THEN cb(s, n, i, noLinkErr(linkName, obj.multihash), Undefined)
             ELSE LET nextObj == obj.links[CHOOSE k \in found : \A j \in found : k >= j]
                  IN  get(s, i, nextObj.multihash, Tail(links))

\* variant of follow: the next node is requested twice
followDoubleGet(s, n, i, links, err, obj) ==
    IF err # Null THEN cb(s, n, i, err, Undefined)
    ELSE IF links = <<>> THEN cb(s, n, i, Null, obj.multihash)
    ELSE LET linkName == Head(links)
             found == {k \in 1..Len(obj.links) : obj.links[k].name = linkName}
         IN  IF found = {}
             THEN cb(s, n, i, noLinkErr(linkName, obj.multihash), Undefined)
             ELSE LET nextObj == obj.links[CHOOSE k \in found : \A j \in found : k <= j]
                  IN  get(get(s, i, nextObj.multihash, Tail(links)),
                          i, nextObj.multihash, Tail(links))

\* variant of follow: the error of the fetch is wrapped in a new error
followWrapErr(s, n, i, links, err, obj) ==
    IF err # Null THEN cb(s, n, i, Err("fetch failed"), Undefined)
    ELSE IF links = <<>> THEN cb(s, n, i, Null, obj.multihash)
    ELSE LET linkName == Head(links)
             found == {k \in 1..Len(obj.links) : obj.links[k].name = linkName}
         IN  IF found = {}
             THEN cb(s, n, i, noLinkErr(linkName, obj.multihash), Undefined)
             ELSE LET nextObj == obj.links[CHOOSE k \in found : \A j \in found : k <= j]
                  IN  get(s, i, nextObj.multihash, Tail(links))

\* variant of follow: a failed fetch is issued again
followRetry(s, n, i, links, err, obj) ==
    IF err # Null THEN get(s, i, s.fetchLog[i][Len(s.fetchLog[i])], links)
    ELSE IF links = <<>> THEN cb(s, n, i, Null, obj.multihash)
    ELSE LET linkName == Head(links)
             found == {k \in 1..Len(obj.links) : obj.links[k].name = linkName}
         IN  IF found = {}
             THEN cb(s, n, i, noLinkErr(linkName, obj.multihash), Undefined)
             ELSE LET nextObj == obj.links[CHOOSE k \in found : \A j \in found : k <= j]
                  IN  get(s, i, nextObj.multihash, Tail(links))

\* follow(links, err, obj), lines 89-107
follow(s, n, i, links, err, obj) ==
    IF err # Null THEN cb(s, n, i, err, Undefined)
    ELSE IF links = <<>> THEN cb(s, n, i, Null, obj.multihash)
    ELSE LET linkName == Head(links)
             found == {k \in 1..Len(obj.links) : obj.links[k].name = linkName}
         IN  IF found = {}
             THEN cb(s, n, i, noLinkErr(linkName, obj.multihash), Undefined)
             ELSE LET nextObj == obj.links[CHOOSE k \in found : \A j \in found : k <= j]
                  IN  get(s, i, nextObj.multihash, Tail(links))

\* lines 64-71: the branch for a path that is not a string
nonString(s, n, i, path) ==
    LET s1 == IF MhValid(path.bytes) THEN s ELSE cb(s, n, i, validateErr, Undefined)
    IN  IF s1.thrown # Null THEN s1 ELSE cb(s1, n, i, Null, path)

\* variant of iteratee: parseIpfsPath is called outside a try block
iterateeNoCatch(s, paths, i) ==
    LET n    == Len(paths)
        path == paths[i]
        s1   == IF path.type # "string" THEN nonString(s, n, i, path) ELSE s
    IN  IF s1.thrown # Null THEN s1
        ELSE LET s2 == [s1 EXCEPT !.parsed = @ \cup {i}]
                 parsedPath == parseIpfsPath(path)
             IN  IF "throws" \in DOMAIN parsedPath
                 THEN [s2 EXCEPT !.thrown = parsedPath.throws]
                 ELSE LET rootHash  == fromB58String(parsedPath.root)
                          rootLinks == parsedPath.links
                      IN  IF rootLinks = <<>>
                          THEN cb(s2, n, i, Null, rootHash)
                          ELSE get(s2, i, rootHash, rootLinks)

\* the iteratee of map, lines 63-86, for the input at index i
iteratee(s, paths, i) ==
    LET n    == Len(paths)
        path == paths[i]
        s1   == IF path.type # "string" THEN nonString(s, n, i, path) ELSE s
    IN  IF s1.thrown # Null THEN s1
        ELSE LET s2 == [s1 EXCEPT !.parsed = @ \cup {i}]
                 parsedPath == parseIpfsPath(path)
             IN  IF "throws" \in DOMAIN parsedPath
                 THEN cb(s2, n, i, parsedPath.throws, Undefined)
                 ELSE LET rootHash  == fromB58String(parsedPath.root)
                          rootLinks == parsedPath.links
                      IN  IF rootLinks = <<>>
                          THEN cb(s2, n, i, Null, rootHash)
                          ELSE get(s2, i, rootHash, rootLinks)

\* variant of mapLoop: the loop goes on to the next input only when the
\* current one has called back (a series loop)
RECURSIVE mapLoopSeries(_, _, _)
mapLoopSeries(s, paths, i) ==
    IF i > Len(paths) THEN s
    ELSE LET s1 == iteratee(s, paths, i)
         IN  IF s1.thrown # Null \/ s1.pending[i] # NoFetch THEN s1
             ELSE mapLoopSeries(s1, paths, i + 1)

\* eachOf's loop over the array; an exception ends it
RECURSIVE mapLoop(_, _, _)
mapLoop(s, paths, i) ==
    IF i > Len(paths) THEN s
    ELSE LET s1 == iteratee(s, paths, i)
         IN  IF s1.thrown # Null THEN s1 ELSE mapLoop(s1, paths, i + 1)

\* map(ipfsPaths, iteratee, callback)
map(s, paths) ==
    LET s1 == IF Len(paths) = 0 THEN Callback(s, Null) ELSE s
    IN  mapLoop(s1, paths, 1)

\* lines 59-61
toArray(a) == IF a.type = "array" THEN a.items ELSE <<a>>

----------------------------------------------------------------------------
(* The object graphs and the inputs *)

\* a multihash with a one-byte sha2-256 digest
H(d) == Buf(<<18, 1, d>>)

\* the base58 text of H(d), d in 1..4: "73kC", "73kD", "73kE", "73kF"
T(d) == <<55, 51, 107, 66 + d>>

Link(name, d) == [name |-> name, multihash |-> H(d)]

Node(d, links) == [multihash |-> H(d), links |-> links]

\* root -{a}-> n1 -{b}-> n2, and a link c of root to a node that is not stored
GraphChain ==
    (H(1) :> Node(1, <<Link(<<97>>, 2), Link(<<99>>, 4)>>))
    @@ (H(2) :> Node(2, <<Link(<<98>>, 3)>>))
    @@ (H(3) :> Node(3, <<>>))

\* the root has two links named a
GraphDup ==
    (H(1) :> Node(1, <<Link(<<97>>, 2), Link(<<97>>, 3), Link(<<98>>, 3)>>))
    @@ (H(2) :> Node(2, <<Link(<<98>>, 3)>>))
    @@ (H(3) :> Node(3, <<Link(<<98>>, 4)>>))
    @@ (H(4) :> Node(4, <<>>))

Graphs == {GraphChain, GraphDup}

Slash == <<SLASH>>

TextPaths ==
    { T(1),                                         \* root
      IpfsPrefix \o T(1) \o Slash,                  \* /ipfs/root/
      T(1) \o Slash \o <<97>>,                      \* root/a
      T(1) \o Slash \o <<97>> \o Slash \o <<98>>,   \* root/a/b
      IpfsPrefix \o T(1) \o Slash \o <<97>> \o Slash \o <<98>> \o Slash,
      T(1) \o Slash \o <<97>> \o Slash \o <<122>>,  \* root/a/z
      T(1) \o Slash \o <<99>>,                      \* root/c
      T(2) \o Slash \o <<98>>,                      \* n1/b
      <<97>> \o Slash \o Slash \o <<98>>,           \* a//b
      <<97>> \o Slash \o <<97>> }                    \* a/a: the root is not an identifier

BufferInputs ==
    { H(1),                                         \* a multihash Buffer
      Buf(<<18>>),                                  \* not a multihash
      Buf(T(1)),                                    \* Buffer of "root"
      Buf(T(1) \o Slash \o <<97>>) }                \* Buffer of "root/a"

PathPool == {Str(c) : c \in TextPaths} \cup BufferInputs

RECURSIVE SeqsUpTo(_, _)
SeqsUpTo(S, n) ==
    IF n = 0 THEN {<<>>}
    ELSE LET shorter == SeqsUpTo(S, n - 1)
         IN  shorter \cup {Append(q, x) : q \in shorter, x \in S}

Args == PathPool \cup {[type |-> "array", items |-> q] : q \in SeqsUpTo(PathPool, MaxInputs)}

fetchErrors(g, hash) ==
    {Err("transport error")} \cup (IF hash \in DOMAIN g THEN {} ELSE {Err("not found")})

----------------------------------------------------------------------------
(* The resolver as a state machine *)

State0(n) ==
    [ results       |-> <<>>,
      completed     |-> 0,
      cbUsed        |-> {},
      cbLog         |-> [i \in 1..n |-> <<>>],
      cbOrder       |-> <<>>,
      callbackCalls |-> <<>>,
      pending       |-> [i \in 1..n |-> NoFetch],
      fetchLog      |-> [i \in 1..n |-> <<>>],
      parsed        |-> {},
      thrown        |-> Null ]

Current ==
    [ results       |-> results,
      completed     |-> completed,
      cbUsed        |-> cbUsed,
      cbLog         |-> cbLog,
      cbOrder       |-> cbOrder,
      callbackCalls |-> callbackCalls,
      pending       |-> pending,
      fetchLog      |-> fetchLog,
      parsed        |-> parsed,
      thrown        |-> thrown ]

Becomes(s) ==
    /\ results' = s.results
    /\ completed' = s.completed
    /\ cbUsed' = s.cbUsed
    /\ cbLog' = s.cbLog
    /\ cbOrder' = s.cbOrder
    /\ callbackCalls' = s.callbackCalls
    /\ pending' = s.pending
    /\ fetchLog' = s.fetchLog
    /\ parsed' = s.parsed
    /\ thrown' = s.thrown

ResolverInit ==
    /\ arg \in Args
    /\ graph \in Graphs
    /\ pc = "start"
    /\ ipfsPaths = <<>>
    /\ results = <<>>
    /\ completed = 0
    /\ cbUsed = {}
    /\ cbLog = <<>>
    /\ cbOrder = <<>>
    /\ callbackCalls = <<>>
    /\ pending = <<>>
    /\ fetchLog = <<>>
    /\ replyLog = <<>>
    /\ parsed = {}
    /\ thrown = Null

\* the call resolveIpfsPaths(ipfs, arg, callback), up to its return or throw
resolveIpfsPaths ==
    /\ pc = "start"
    /\ pc' = "called"
    /\ ipfsPaths' = toArray(arg)
    /\ Becomes(map(State0(Len(toArray(arg))), toArray(arg)))
    /\ replyLog' = [i \in 1..Len(toArray(arg)) |-> <<>>]
    /\ UNCHANGED <<arg, graph, parserVars>>

\* ipfs.object.get calls back with the node
FetchOk(i) ==
    /\ pc = "called"
    /\ pending[i] # NoFetch
    /\ pending[i].hash \in DOMAIN graph
    /\ Becomes(follow([Current EXCEPT !.pending[i] = NoFetch], Len(ipfsPaths), i,
                      pending[i].links, Null, graph[pending[i].hash]))
    /\ replyLog' = [replyLog EXCEPT ![i] =
                        Append(@, [err |-> Null, obj |-> graph[pending[i].hash]])]
    /\ UNCHANGED <<arg, graph, pc, ipfsPaths, parserVars>>

\* ipfs.object.get calls back with an error
FetchErr(i) ==
    /\ pc = "called"
    /\ pending[i] # NoFetch
    /\ \E e \in fetchErrors(graph, pending[i].hash) :
          /\ Becomes(follow([Current EXCEPT !.pending[i] = NoFetch], Len(ipfsPaths), i,
                             pending[i].links, e, Undefined))
          /\ replyLog' = [replyLog EXCEPT ![i] = Append(@, [err |-> e, obj |-> Undefined])]
    /\ UNCHANGED <<arg, graph, pc, ipfsPaths, parserVars>>

Init ==
    /\ ResolverInit
    /\ ipfsPath = Str(<<>>)
    /\ parseOut = Null

Next ==
    \/ resolveIpfsPaths
    \/ \E i \in DOMAIN pending : FetchOk(i)
    \/ \E i \in DOMAIN pending : FetchErr(i)

Spec == Init /\ [][Next]_vars

----------------------------------------------------------------------------
(* The parser as a state machine: one call of parseIpfsPath *)

\* "/ipfs/", "/", the text of H(1), "a", and "l", which is not a base58 character
Tokens == { IpfsPrefix, Slash, T(1), <<97>>, <<108>> }

ParserInputs == {Str(Concat(q)) : q \in SeqsUpTo(Tokens, MaxTokens)}

ParseInit ==
    /\ ipfsPath \in ParserInputs
    /\ parseOut = Null
    /\ arg = [type |-> "array", items |-> <<>>]
    /\ graph = GraphChain
    /\ pc = "start"
    /\ ipfsPaths = <<>>
    /\ results = <<>>
    /\ completed = 0
    /\ cbUsed = {}
    /\ cbLog = <<>>
    /\ cbOrder = <<>>
    /\ callbackCalls = <<>>
    /\ pending = <<>>
    /\ fetchLog = <<>>
    /\ replyLog = <<>>
    /\ parsed = {}
    /\ thrown = Null

\* parseIpfsPath(ipfsPath)
Parse ==
    /\ parseOut = Null
    /\ parseOut' = parseIpfsPath(ipfsPath)
    /\ UNCHANGED <<ipfsPath, resolverVars>>

ParseNext == Parse

ParseSpec == ParseInit /\ [][ParseNext]_vars

----------------------------------------------------------------------------
(* Vocabulary of the properties *)

Inputs == DOMAIN cbLog

LinkNames == { <<97>>, <<98>>, <<99>>, <<122>> }

LinkSeqs == SeqsUpTo(LinkNames, 2)

RECURSIVE LinkText(_)
LinkText(links) ==
    IF links = <<>> THEN <<>> ELSE Slash \o Head(links) \o LinkText(Tail(links))

\* the text ["/ipfs/"] root/l1/../lN ["/"] for the root H(d)
PathText(d, links, pre, trail) ==
    (IF pre THEN IpfsPrefix ELSE <<>>) \o T(d) \o LinkText(links)
        \o (IF trail THEN Slash ELSE <<>>)

\* input i is the text of the path from H(d) along links
Shape(i, d, links) ==
    /\ ipfsPaths[i].type = "string"
    /\ \E pre \in BOOLEAN, trail \in BOOLEAN :
          ipfsPaths[i].chars = PathText(d, links, pre, trail)

\* the roots the inputs name: H(1) and H(2)
RootIds == {1, 2}

\* every text ["/ipfs/"] root/l1/../lN ["/"] with at most two links, with the
\* root d and the links it is built from
PathForms ==
    { [text |-> PathText(d, links, pre, trail), d |-> d, links |-> links] :
        d \in RootIds, links \in LinkSeqs, pre \in BOOLEAN, trail \in BOOLEAN }

\* the ways to read the string input i as such a text
FormsOf(i) ==
    IF ipfsPaths[i].type = "string"
    THEN {f \in PathForms : f.text = ipfsPaths[i].chars}
    ELSE {}

\* the ways to read the bytes of the Buffer input i as such a text
BufferFormsOf(i) ==
    IF ipfsPaths[i].type = "buffer"
    THEN {f \in PathForms : f.text = ipfsPaths[i].bytes}
    ELSE {}

\* input i has exactly one outcome, and it is a result
Resolved(i) == Len(cbLog[i]) = 1 /\ cbLog[i][1].err = Null

FetchErrorValues == { Err("transport error"), Err("not found") }

IsNoLink(e) == e.type = "error" /\ e.message = "no link named"

HasLink(node, name) == \E k \in 1..Len(node.links) : node.links[k].name = name

\* t is reached from h by following links named as in links, in order
RECURSIVE Reached(_, _, _, _)
Reached(g, h, links, t) ==
    IF links = <<>> THEN t = h
    ELSE /\ h \in DOMAIN g
         /\ \E k \in 1..Len(g[h].links) :
               /\ g[h].links[k].name = Head(links)
               /\ Reached(g, g[h].links[k].multihash, Tail(links), t)

----------------------------------------------------------------------------
(* Properties *)

\* C1: when the caller's callback reports success and every input resolved,
\* whatever the order in which the fetches completed, the result collection
\* has one element per input, its i-th element is the outcome of the i-th
\* input and is the node reached from that input's root along its links; a
\* single non-array input gives a one-element collection.
C1_ResultsInInputOrder ==
    (/\ callbackCalls # <<>>
     /\ callbackCalls[1].err = Null
     /\ \A i \in Inputs : Resolved(i))
    => LET r == callbackCalls[1].results
       IN  /\ DOMAIN r = 1..Len(ipfsPaths)
           /\ Len(ipfsPaths) = (IF arg.type = "array" THEN Len(arg.items) ELSE 1)
           /\ \A i \in Inputs :
                 /\ ipfsPaths[i] = (IF arg.type = "array" THEN arg.items[i] ELSE arg)
                 /\ r[i] = cbLog[i][1].value
                 /\ \A f \in FormsOf(i) : Reached(graph, H(f.d), f.links, r[i])

\* two inputs with links, the second completed first, distinct results
C1_Witness ==
    /\ arg.type = "array"
    /\ Len(ipfsPaths) = 2
    /\ callbackCalls # <<>>
    /\ callbackCalls[1].err = Null
    /\ \A i \in Inputs : Resolved(i) /\ Len(fetchLog[i]) >= 2
    /\ cbOrder = <<2, 1>>
    /\ callbackCalls[1].results[1] # callbackCalls[1].results[2]

\* C2: a textual input that is only a valid root (with or without the prefix
\* and the trailing slash), once handed to the parser, has issued no graph
\* fetch and has the single outcome: the decoded identifier of the root.
C2_RootOnlyNoFetch ==
    \A i \in parsed :
        \A f \in FormsOf(i) :
            f.links = <<>>
            => /\ fetchLog[i] = <<>>
               /\ pending[i] = NoFetch
               /\ cbLog[i] = << [err |-> Null, value |-> H(f.d)] >>

C2_Witness ==
    \E i \in Inputs :
        /\ ipfsPaths[i] = Str(IpfsPrefix \o T(1) \o Slash)
        /\ i \in parsed
        /\ fetchLog[i] = <<>>
        /\ cbLog[i] = << [err |-> Null, value |-> H(1)] >>

\* C3: a textual input root/l1/../lN (N >= 1) that resolved has as its result
\* the self-identifier of the node it fetched last, and that node is the one
\* reached from the root by following l1..lN in order; on the graph
\* root -{a}-> n1 -{b}-> n2 the path root/a/b yields n2's identifier unless a
\* fetch fails.
C3_TerminalNodeIdentifier ==
    \A i \in Inputs :
        cbLog[i] # <<>>
        => \A f \in FormsOf(i) :
              f.links # <<>>
              => /\ Resolved(i)
                    => LET last == fetchLog[i][Len(fetchLog[i])]
                       IN  /\ last \in DOMAIN graph
                           /\ cbLog[i][1].value = graph[last].multihash
                           /\ Reached(graph, H(f.d), f.links, last)
                 /\ (/\ graph = GraphChain
                     /\ f.d = 1
                     /\ f.links = << <<97>>, <<98>> >>
                     /\ cbLog[i][1].err \notin FetchErrorValues)
                    => cbLog[i] = << [err |-> Null, value |-> H(3)] >>

C3_Witness ==
    \E i \in Inputs :
        /\ graph = GraphChain
        /\ Shape(i, 1, << <<97>>, <<98>> >>)
        /\ Resolved(i)
        /\ cbLog[i][1].value = H(3)

\* C4 as stated: a textual input with N >= 1 links that resolved issued
\* exactly N graph fetches (root/a/b: the fetches of root and n1).
C4_OneFetchPerLink ==
    \A i \in Inputs :
        Resolved(i)
        => \A f \in FormsOf(i) :
              f.links # <<>>
              => /\ Len(fetchLog[i]) = Len(f.links)
                 /\ (graph = GraphChain /\ f.d = 1 /\ f.links = << <<97>>, <<98>> >>)
                    => fetchLog[i] = <<H(1), H(2)>>

\* C4 amended: a textual input with N >= 1 links that resolved issued exactly
\* N + 1 graph fetches, of the root and of the target of each of the N links
\* (root/a/b on root -{a}-> n1 -{b}-> n2: the fetches of root, n1 and n2).
C4_FetchPerLinkPlusRoot ==
    \A i \in Inputs :
        Resolved(i)
        => \A f \in FormsOf(i) :
              f.links # <<>>
              => /\ Len(fetchLog[i]) = Len(f.links) + 1
                 /\ fetchLog[i][1] = H(f.d)
                 /\ \A k \in 1..Len(f.links) :
                       Reached(graph, H(f.d), SubSeq(f.links, 1, k), fetchLog[i][k + 1])
                 /\ (graph = GraphChain /\ f.d = 1 /\ f.links = << <<97>>, <<98>> >>)
                    => fetchLog[i] = <<H(1), H(2), H(3)>>

C4_Witness ==
    \E i \in Inputs :
        /\ graph = GraphChain
        /\ Shape(i, 1, << <<97>>, <<98>> >>)
        /\ Resolved(i)
        /\ fetchLog[i] = <<H(1), H(2), H(3)>>

\* C5: an input fails with the missing-link error exactly when the node it
\* fetched last has no link with the next unconsumed name; the error names
\* that link and the identifier of that node, and the fetch of that node is
\* the last fetch of the input.
C5_MissingLink ==
    \A i \in Inputs :
        cbLog[i] # <<>>
        => \A f \in FormsOf(i) :
              LET links == f.links
                  m == Len(fetchLog[i])
              IN  /\ \A k \in 1..Len(cbLog[i]) :
                        IsNoLink(cbLog[i][k].err)
                        => /\ pending[i] = NoFetch
                           /\ m \in 1..Len(links)
                           /\ fetchLog[i][m] \in DOMAIN graph
                           /\ ~HasLink(graph[fetchLog[i][m]], links[m])
                           /\ cbLog[i][k].err.name = links[m]
                           /\ cbLog[i][k].err.under = graph[fetchLog[i][m]].multihash
                  /\ (/\ cbLog[i][1].err \notin FetchErrorValues
                      /\ m \in 1..Len(links)
                      /\ fetchLog[i][m] \in DOMAIN graph
                      /\ ~HasLink(graph[fetchLog[i][m]], links[m]))
                     => cbLog[i] = << [err |-> noLinkErr(links[m],
                                                         graph[fetchLog[i][m]].multihash),
                                       value |-> Undefined] >>

C5_Witness ==
    \E i \in Inputs :
        /\ graph = GraphChain
        /\ Shape(i, 1, << <<97>>, <<122>> >>)
        /\ pending[i] = NoFetch
        /\ fetchLog[i] = <<H(1), H(2)>>
        /\ Len(cbLog[i]) = 1
        /\ IsNoLink(cbLog[i][1].err)
        /\ cbLog[i][1].err.name = <<122>>
        /\ cbLog[i][1].err.under = H(2)

\* an outcome of input i is an error
Failed(i) == \E k \in 1..Len(cbLog[i]) : cbLog[i][k].err # Null

\* the call has returned or thrown and no fetch is outstanding
Quiescent == pc = "called" /\ \A i \in Inputs : pending[i] = NoFetch

\* C6 as stated: in a batch, once an input has failed, every other input has
\* still been started: it has an outcome of its own or a fetch outstanding
\* (its chain goes on as if the failing input were absent).
C6_SiblingsUnaffected ==
    pc = "called"
    => \A i \in Inputs, j \in Inputs :
          (i # j /\ Failed(i)) => (cbLog[j] # <<>> \/ pending[j] # NoFetch)

\* C7 as stated: once nothing is outstanding, the caller's callback has been
\* invoked exactly once: with the error of a failing input if an input
\* failed, with no error and the result collection if none failed. (The
\* array async/map passes along with an error is left unconstrained here.)
C7_CallbackExactlyOnce ==
    Quiescent
    => /\ Len(callbackCalls) = 1
       /\ (\E i \in Inputs : Failed(i))
          => \E i \in Inputs : \E k \in 1..Len(cbLog[i]) :
                cbLog[i][k].err # Null /\ callbackCalls[1].err = cbLog[i][k].err
       /\ (\A i \in Inputs : ~Failed(i))
          => /\ callbackCalls[1].err = Null
             /\ DOMAIN callbackCalls[1].results = 1..Len(ipfsPaths)

\* C8 as stated: a Buffer input that passes multihashes.validate has the single
\* outcome "itself", stays in the results unchanged, issues no graph fetch
\* and is never handed to parseIpfsPath.
C8_RawIdentifierPassthrough ==
    \A i \in Inputs :
        (/\ ipfsPaths[i].type = "buffer"
         /\ MhValid(ipfsPaths[i].bytes)
         /\ cbLog[i] # <<>>)
        => /\ cbLog[i] = << [err |-> Null, value |-> ipfsPaths[i]] >>
           /\ results[i] = ipfsPaths[i]
           /\ fetchLog[i] = <<>>
           /\ i \notin parsed

\* C9 as stated: a Buffer input whose bytes are the text of a valid path is
\* accepted (no validation or type error, nothing thrown) and, for a path
\* that is only a root, has the outcome of the equivalent string: the decoded
\* identifier of the root.
C9_BufferOfTextAccepted ==
    \A i \in Inputs :
        cbLog[i] # <<>>
        => \A f \in BufferFormsOf(i) :
              /\ \A k \in 1..Len(cbLog[i]) :
                    cbLog[i][k].err \notin {validateErr, matchTypeErr}
              /\ thrown = Null
              /\ f.links = <<>> => cbLog[i] = << [err |-> Null, value |-> H(f.d)] >>

----------------------------------------------------------------------------
(* Properties of parseIpfsPath, under ParseSpec *)

\* segments without '/': one or two of the tokens that are not separators
Segments == {Concat(q) : q \in SeqsUpTo({T(1), <<97>>, <<108>>}, 2)} \ {<<>>}

\* every text ["/ipfs/"] s1/../sk ["/"] with s1 a valid identifier text and at
\* most two links, with the root and the links it is built from
Forms ==
    { [text |-> PathText(1, links, pre, trail), root |-> T(1), links |-> links] :
        links \in SeqsUpTo(Segments, 2), pre \in BOOLEAN, trail \in BOOLEAN }

\* C10: for every string ["/ipfs/"] s1/../sk ["/"] with non-empty segments free
\* of '/' and s1 a valid identifier text, parseIpfsPath returns root = s1 and
\* links = [s2..sk] in order, the same with and without the prefix and with
\* and without the trailing '/'.
C10_ParseWellFormed ==
    parseOut # Null
    => \A f \in Forms :
          f.text = ipfsPath.chars => parseOut = [root |-> f.root, links |-> f.links]

\* "/ipfs/<root>/a/" parsed to the root and the link a
C10_Witness ==
    /\ ipfsPath = Str(IpfsPrefix \o T(1) \o Slash \o <<97>> \o Slash)
    /\ parseOut = [root |-> T(1), links |-> << <<97>> >>]

\* a '/' directly followed by a '/'
HasEmptySegment(chars) ==
    \E k \in 1..(Len(chars) - 1) : chars[k] = SLASH /\ chars[k + 1] = SLASH

\* the segments that are not the text of an identifier: too short to be a
\* multihash, not base58, or not a multihash when decoded
BadRoots == Segments \ {T(1)}

\* the well-formed texts ["/ipfs/"] s1/../sk ["/"] whose first segment is not
\* an identifier
BadRootTexts ==
    { (IF pre THEN IpfsPrefix ELSE <<>>) \o root \o LinkText(links)
          \o (IF trail THEN Slash ELSE <<>>) :
        root \in BadRoots, links \in SeqsUpTo(Segments, 2),
        pre \in BOOLEAN, trail \in BOOLEAN }

\* C11: parseIpfsPath throws the invalid-path error, and returns nothing, for
\* the empty string, for "/", for every input with an empty interior segment
\* ("//") and for every well-formed input whose first segment fails the
\* identifier validation.
C11_ParseRejects ==
    (/\ parseOut # Null
     /\ \/ ipfsPath.chars = <<>>
        \/ ipfsPath.chars = Slash
        \/ HasEmptySegment(ipfsPath.chars)
        \/ ipfsPath.chars \in BadRootTexts)
    => parseOut = [throws |-> invalidPathErr]

\* "a//l" was rejected
C11_Witness ==
    /\ ipfsPath = Str(<<97>> \o Slash \o Slash \o <<108>>)
    /\ parseOut = [throws |-> invalidPathErr]

----------------------------------------------------------------------------
(* Properties of link-following, under Spec *)

\* t is the target of the first link of node that has the name
IsFirstTarget(node, name, t) ==
    \E p \in 1..Len(node.links) :
        /\ node.links[p].name = name
        /\ node.links[p].multihash = t
        /\ \A q \in 1..(p - 1) : node.links[q].name # name

\* the links of node that have the name
LinksNamed(node, name) == {p \in 1..Len(node.links) : node.links[p].name = name}

\* C12: every fetch of an input after its first is the fetch of the target of
\* the first link, in the link order of the node fetched before, that has the
\* name being sought, also when several links of that node have the name.
C12_FirstDuplicateWins ==
    \A i \in Inputs :
        Len(fetchLog[i]) >= 2
        => \A f \in FormsOf(i) :
              \A k \in 1..(Len(fetchLog[i]) - 1) :
                  /\ fetchLog[i][k] \in DOMAIN graph
                  /\ k <= Len(f.links)
                  /\ IsFirstTarget(graph[fetchLog[i][k]], f.links[k], fetchLog[i][k + 1])

\* the root has two links named a, to n1 and to n2; root/a/b went through n1
C12_Witness ==
    \E i \in Inputs :
        /\ Shape(i, 1, << <<97>>, <<98>> >>)
        /\ Cardinality(LinksNamed(graph[H(1)], <<97>>)) = 2
        /\ fetchLog[i] = <<H(1), H(2), H(3)>>
        /\ cbLog[i] = << [err |-> Null, value |-> H(3)] >>

\* C13 as stated: every input has at most one outcome at any time and
\* exactly one once nothing is outstanding; a non-textual input that fails
\* the identifier validation has the validation error as its only outcome
\* and is not processed further.
C13_OneOutcomePerInput ==
    \A i \in Inputs :
        /\ Len(cbLog[i]) <= 1
        /\ Quiescent => Len(cbLog[i]) = 1
        /\ (/\ ipfsPaths[i].type = "buffer"
            /\ ~MhValid(ipfsPaths[i].bytes)
            /\ cbLog[i] # <<>>)
           => /\ cbLog[i] = << [err |-> validateErr, value |-> Undefined] >>
              /\ i \notin parsed

\* C14: an input never has more than one graph fetch without a reply, and
\* its fetch number k + 1 is issued only after the reply to fetch number k,
\* which was a node with a link of the name sought at step k.
C14_SequentialFetches ==
    \A i \in Inputs :
        fetchLog[i] # <<>>
        => /\ Len(fetchLog[i]) - Len(replyLog[i]) \in {0, 1}
           /\ (pending[i] # NoFetch) <=> (Len(fetchLog[i]) = Len(replyLog[i]) + 1)
           /\ \A f \in FormsOf(i) :
                 \A k \in 1..(Len(fetchLog[i]) - 1) :
                     /\ replyLog[i][k].err = Null
                     /\ HasLink(replyLog[i][k].obj, f.links[k])

\* two fetches were answered and the third is outstanding
C14_Witness ==
    \E i \in Inputs :
        /\ Len(fetchLog[i]) = 3
        /\ Len(replyLog[i]) = 2
        /\ pending[i] # NoFetch
        /\ pending[i].hash = fetchLog[i][3]

C16_FetchErrorVerbatim ==
    \A i \in Inputs :
        \A k \in 1..Len(replyLog[i]) :
            replyLog[i][k].err # Null
            => /\ k = Len(replyLog[i])
               /\ Len(fetchLog[i]) = k
               /\ pending[i] = NoFetch
               /\ cbLog[i] = << [err |-> replyLog[i][k].err, value |-> Undefined] >>

\* the fetch of a node that is not stored was answered "not found" after a
\* successful fetch of the root
C16_Witness ==
    \E i \in Inputs :
        /\ Len(replyLog[i]) = 2
        /\ replyLog[i][1].err = Null
        /\ replyLog[i][2].err = Err("not found")
        /\ fetchLog[i] = <<H(1), H(4)>>
        /\ cbLog[i] = << [err |-> Err("not found"), value |-> Undefined] >>

\* the string input i is a text parseIpfsPath rejects: empty, "/", with an
\* empty segment, or with a first segment that is not an identifier
RejectedText(i) ==
    /\ ipfsPaths[i].type = "string"
    /\ \/ ipfsPaths[i].chars = <<>>
       \/ ipfsPaths[i].chars = Slash
       \/ HasEmptySegment(ipfsPaths[i].chars)
       \/ ipfsPaths[i].chars \in BadRootTexts

\* C17: a textual input that parseIpfsPath rejects has the invalid-path error
\* as its single outcome, and no graph fetch is ever issued for it.
C17_ParseErrorIsOutcome ==
    \A i \in parsed :
        RejectedText(i)
        => /\ cbLog[i] = << [err |-> invalidPathErr, value |-> Undefined] >>
           /\ fetchLog[i] = <<>>
           /\ pending[i] = NoFetch
           /\ replyLog[i] = <<>>

\* "a//b" and "a/a" were both rejected in one call
C17_Witness ==
    /\ Len(ipfsPaths) = 2
    /\ ipfsPaths[1] = Str(<<97>> \o Slash \o Slash \o <<98>>)
    /\ ipfsPaths[2] = Str(<<97>> \o Slash \o <<97>>)
    /\ \A i \in {1, 2} :
          /\ cbLog[i] = << [err |-> invalidPathErr, value |-> Undefined] >>
          /\ fetchLog[i] = <<>>

\* the state of the resolution of input i. LinkLookup, the search of the
\* links of a fetched node, lies inside the step that handles the reply.
Phase(i) ==
    IF i \notin DOMAIN cbLog THEN "Start"
    ELSE IF pending[i] # NoFetch THEN "FetchingNode"
    ELSE IF cbLog[i] = <<>> THEN "Start"
    ELSE IF cbLog[i][Len(cbLog[i])].err = Null THEN "Done"
    ELSE "Failed"

\* the step of input i from FetchingNode: nothing, or the reply to its fetch
\* and the link lookup that follows a successful one
FetchingStep(i) ==
    \/ /\ Phase(i)' = "FetchingNode"
       /\ fetchLog'[i] = fetchLog[i]
       /\ replyLog'[i] = replyLog[i]
    \/ /\ Len(replyLog'[i]) = Len(replyLog[i]) + 1
       /\ LET k == Len(replyLog'[i])
              r == replyLog'[i][k]
          IN  IF r.err # Null
              THEN Phase(i)' = "Failed" /\ fetchLog'[i] = fetchLog[i]
              ELSE \A f \in FormsOf(i) :
                      IF k > Len(f.links)
                      THEN Phase(i)' = "Done" /\ fetchLog'[i] = fetchLog[i]
                      ELSE IF HasLink(r.obj, f.links[k])
                      THEN /\ Phase(i)' = "FetchingNode"
                           /\ Len(fetchLog'[i]) = Len(fetchLog[i]) + 1
                      ELSE Phase(i)' = "Failed" /\ fetchLog'[i] = fetchLog[i]

\* the step of the link-following resolution of input i
PhaseStep(i) ==
    IF Phase(i) = "Start"
    THEN /\ Phase(i)' = "FetchingNode"
         /\ Len(fetchLog'[i]) = 1
         /\ replyLog'[i] = <<>>
    ELSE IF Phase(i) = "FetchingNode"
    THEN FetchingStep(i)
    ELSE /\ Phase(i)' = Phase(i)
         /\ fetchLog'[i] = fetchLog[i]
         /\ replyLog'[i] = replyLog[i]
         /\ cbLog'[i] = cbLog[i]

\* C18: every step of a link-following resolution is a transition of the
\* state machine: Start to FetchingNode; FetchingNode, through LinkLookup on
\* a successful fetch, back to FetchingNode when a link with the sought name
\* was found, to Done when no link name was left, to Failed when no link has
\* the name; FetchingNode to Failed on a fetch error; Done and Failed are
\* left by no step, and no fetch or outcome is added after them.
C18_StateMachine ==
    [][\A i \in DOMAIN fetchLog' : fetchLog'[i] # <<>> => PhaseStep(i)]_vars

\* one call in which an input reached Done through three fetches and another
\* reached Failed in the lookup after its second fetch
C18_Witness ==
    \E i \in Inputs, j \in Inputs :
        /\ Phase(i) = "Done"
        /\ Len(replyLog[i]) = 3
        /\ Phase(j) = "Failed"
        /\ Len(replyLog[j]) = 2
        /\ replyLog[j][2].err = Null

\* C19 as stated: when every issued fetch has been answered, the caller's
\* callback has been invoked, whatever the input collection.
C19_CallbackReached ==
    Quiescent => callbackCalls # <<>>

\* the number of invocations of cb for the input of position p of cbOrder, up
\* to and including that position
Occurrence(p) == Cardinality({q \in 1..p : cbOrder[q] = cbOrder[p]})

\* the arguments of the p-th invocation of cb in time
CbAt(p) == cbLog[cbOrder[p]][Occurrence(p)]

\* the positions in time of the invocations of cb with an error
ErrorTimes == {p \in 1..Len(cbOrder) : CbAt(p).err # Null}

\* C20 as stated: an error delivered to the caller's callback is the error of
\* the input that failed first in time.
C20_FirstFailureInTime ==
    (callbackCalls # <<>> /\ callbackCalls[1].err # Null)
    => /\ ErrorTimes # {}
       /\ callbackCalls[1].err = CbAt(CHOOSE p \in ErrorTimes : \A q \in ErrorTimes : p <= q).err

====
